---- MODULE Spec2Model ----
(***************************************************************************)
(* Model of export_posts.py: one run of export_posts_to_json (handle       *)
(* resolution, cursor-paginated fetch loop, sort, export) followed by      *)
(* check_token_limit_and_offer_trim / trim_posts_and_reexport.             *)
(***************************************************************************)
EXTENDS Integers, Sequences, FiniteSets, TLC

VARIABLES
    pc,              \* position of the run in export_posts_to_json / the enforcer
    repo_did,        \* line 126
    output_filename, \* line 135
    all_posts,       \* line 137, appended to at 181, sorted in place at 198
    cursor,          \* line 138 / 187
    posts_fetched,   \* line 139 / 183
    response,        \* line 150: the response of the iteration being processed
    requests,        \* history: the cursor carried by each list_records call
    pages,           \* history: record count and next cursor of each response
    failed,          \* history: the except branch of line 192 was taken
    appended,        \* history: the posts in the order line 181 appended them
    files,           \* the file system: filename -> content
    written,         \* history: the filenames opened for writing, in order
    token_count,     \* line 36
    measurements,    \* history: calls of count_tokens_with_google_tokenizer
    posts_to_remove, \* line 53
    posts_to_keep,   \* line 54
    estimates,       \* history: times lines 51-54 ran
    prompts,         \* history: calls of input() at line 64
    choice,          \* line 64: the answer last read, stripped and lowered
    trimmed_posts,   \* line 80
    trim_report,     \* lines 100-105: what the re-measurement printed
    outcome,         \* which branch check_token_limit_and_offer_trim returned from
    final_filename   \* line 209, the value returned at line 216

vars == <<pc, repo_did, output_filename, all_posts, cursor, posts_fetched,
          response, requests, pages, failed, appended, files, written,
          token_count, measurements, posts_to_remove, posts_to_keep, estimates,
          prompts, choice, trimmed_posts, trim_report, outcome, final_filename>>

fetchVars == <<all_posts, cursor, posts_fetched, response, requests, pages,
               failed, appended>>
budgetVars == <<token_count, measurements, posts_to_remove, posts_to_keep,
                estimates, prompts, choice, trimmed_posts, trim_report, outcome,
                final_filename>>

----------------------------------------------------------------------------
(* Bounds of the model *)

\* the server's repository holds at most this many post records
MaxRecords == 2
\* the finite page sequence has at most this many responses
MaxPages == 2
\* created_at values are 1..MaxTime (their string order is all the code uses)
MaxTime == 2
\* answers other than y/yes/n/no given at most this often in one run
MaxInvalid == 1
\* sizes of the sorted collections handed to the enforcer on its own
MaxBudgetPosts == 12

----------------------------------------------------------------------------
(* Program constants *)

TOKEN_LIMIT == 950000
PageLimit == 100
\* Python's None as a token count (count_tokens_with_google_tokenizer, 20/23)
None == -1
\* cursor = None (line 138), also the falsy cursor of line 188
NoCursor == 0

handle == "user.bsky.social"
image_cdn_base == "https://cdn.bsky.app/img/feed_fullsize/plain"
ImagesType == "app.bsky.embed.images"
Did == "did:plc:repo"
NoDid == ""

Min(a, b) == IF a <= b THEN a ELSE b
Max(a, b) == IF a >= b THEN a ELSE b

----------------------------------------------------------------------------
(* The remote collaborators' data *)

\* the embed field of a record value: missing attribute, falsy, images, and
\* two other types, one of them with an images list of its own
Embeds ==
    { [has |-> FALSE, truthy |-> FALSE, py_type |-> "", images |-> <<>>],
      [has |-> TRUE, truthy |-> FALSE, py_type |-> "", images |-> <<>>],
      [has |-> TRUE, truthy |-> TRUE, py_type |-> ImagesType,
       images |-> <<[cid |-> "cid1", alt |-> "alt1"]>>],
      [has |-> TRUE, truthy |-> TRUE, py_type |-> "app.bsky.embed.external",
       images |-> <<>>],
      [has |-> TRUE, truthy |-> TRUE, py_type |-> "com.example.embed.gallery",
       images |-> <<[cid |-> "cid2", alt |-> "alt2"]>>] }

RawRecords ==
    [created_at : 1..MaxTime, text : {"text"}, embed : Embeds]

RecordLists(k) == UNION { [1..n -> RawRecords] : n \in 0..k }

Cursors == {1, 2}

NoResponse == [records |-> <<>>, cursor |-> NoCursor]

\* the terminating responses: an empty page, or a page with no next cursor
Terminating(resp) == resp.records = <<>> \/ resp.cursor = NoCursor

----------------------------------------------------------------------------
(* RecordTransformer: lines 164-179 *)

ImageUrl(did, cid) == <<image_cdn_base, "/", did, "/", cid, "@jpeg">>

\* the type test of line 173 missing
PostDataAnyEmbed(record, did) ==
    [created_at |-> record.created_at,
     text |-> record.text,
     images |->
        IF record.embed.has /\ record.embed.truthy
        THEN [i \in 1..Len(record.embed.images) |->
                [url |-> ImageUrl(did, record.embed.images[i].cid),
                 alt_text |-> record.embed.images[i].alt]]
        ELSE <<>>]

PostData(record, did) ==
    [created_at |-> record.created_at,
     text |-> record.text,
     images |->
        IF record.embed.has /\ record.embed.truthy
           /\ record.embed.py_type = ImagesType
        THEN [i \in 1..Len(record.embed.images) |->
                [url |-> ImageUrl(did, record.embed.images[i].cid),
                 alt_text |-> record.embed.images[i].alt]]
        ELSE <<>>]

PagePosts(records, did) == [i \in 1..Len(records) |-> PostData(records[i], did)]

----------------------------------------------------------------------------
(* Sorter: all_posts.sort(key=created_at, reverse=True), line 198.  Python's *)
(* sort is stable, also under reverse=True: equal keys keep their order.    *)

\* x placed behind every element whose key is >= its own
InsertDesc(t, x) ==
    LET k == Cardinality({i \in 1..Len(t) : t[i].created_at >= x.created_at})
    IN SubSeq(t, 1, k) \o <<x>> \o SubSeq(t, k + 1, Len(t))

RECURSIVE SortFold(_, _, _)
SortFold(s, i, acc) ==
    IF i > Len(s) THEN acc ELSE SortFold(s, i + 1, InsertDesc(acc, s[i]))

\* a sort that puts x in front of the elements with an equal key
InsertDescUnstable(t, x) ==
    LET k == Cardinality({i \in 1..Len(t) : t[i].created_at > x.created_at})
    IN SubSeq(t, 1, k) \o <<x>> \o SubSeq(t, k + 1, Len(t))

RECURSIVE SortFoldUnstable(_, _, _)
SortFoldUnstable(s, i, acc) ==
    IF i > Len(s) THEN acc
    ELSE SortFoldUnstable(s, i + 1, InsertDescUnstable(acc, s[i]))

SortDescUnstable(s) == SortFoldUnstable(s, 1, <<>>)

\* reverse=True forgotten: oldest first
InsertAsc(t, x) ==
    LET k == Cardinality({i \in 1..Len(t) : t[i].created_at <= x.created_at})
    IN SubSeq(t, 1, k) \o <<x>> \o SubSeq(t, k + 1, Len(t))

RECURSIVE SortFoldAsc(_, _, _)
SortFoldAsc(s, i, acc) ==
    IF i > Len(s) THEN acc ELSE SortFoldAsc(s, i + 1, InsertAsc(acc, s[i]))

SortAsc(s) == SortFoldAsc(s, 1, <<>>)

SortDesc(s) == SortFold(s, 1, <<>>)

----------------------------------------------------------------------------
(* Exporter: file names, json.dump, the file system *)

\* the trimmed file named like the export
FilenameWithoutSuffix(h, ts, suffix) ==
    [handle |-> h, infix |-> "_posts_", ts |-> ts, suffix |-> ".json"]

\* f"{handle}_posts_{timestamp}{suffix}", lines 135 and 84
Filename(h, ts, suffix) == [handle |-> h, infix |-> "_posts_", ts |-> ts, suffix |-> suffix]

NoFile == [handle |-> "", infix |-> "", ts |-> 0, suffix |-> ""]

\* the two clock readings of a run: line 134, and line 83 not earlier
Clock == {1, 2}

\* json.dump(posts, f, indent=2, ensure_ascii=False), lines 202 and 88
JsonDump(posts) == [indent |-> 2, ensure_ascii |-> FALSE, array |-> posts]

NoFiles == [n \in {} |-> JsonDump(<<>>)]

\* open(name, 'w') truncates or creates, then the content is written
WriteFile(fs, name, content) ==
    [n \in (DOMAIN fs) \cup {name} |-> IF n = name THEN content ELSE fs[n]]

----------------------------------------------------------------------------
(* TokenCounter: count_tokens_with_google_tokenizer, lines 7-23.  The      *)
(* tokenizer is external: the count of a text is any of TokenCounts, or     *)
(* None when transformers is missing or raises.  A subword tokenizer emits  *)
(* at most one token per character plus the end marker, so the two          *)
(* characters of an empty array give a small count.                         *)

TokenCounts ==
    {949999, 950000, 950001, 1000000, 1900000, 20000000, 120000000}

EmptyTokenCounts == {2, 3}

CountChoices(content) ==
    {None} \cup (IF content.array = <<>> THEN EmptyTokenCounts ELSE TokenCounts)

----------------------------------------------------------------------------
(* BudgetEnforcer arithmetic: lines 46-54 *)

WithinLimitStrict(tc) == tc < TOKEN_LIMIT

\* the comparison of line 46 turned round
WithinLimitFlipped(tc) == tc >= TOKEN_LIMIT

\* line 46
WithinLimit(tc) == tc <= TOKEN_LIMIT

\* line 51
ExcessTokens(tc) == tc - TOKEN_LIMIT

\* line 52: integer division
AvgTokensPerPost(tc, n) == tc \div n

\* line 53: int(excess / avg * 1.1).  The double nearest 1.1 lies above 1.1
\* by less than 1e-16 relative, the division and the product each round by at
\* most 2^-53 relative, and a non-integer 11*excess/(10*avg) is at least
\* 1/(10*avg) away from an integer: for all counts below 2^31 the truncated
\* double equals the truncated exact quotient.
PostsToRemove(tc, n) ==
    (11 * ExcessTokens(tc)) \div (10 * AvgTokensPerPost(tc, n))

\* line 54
PostsToKeep(tc, n) == n - PostsToRemove(tc, n)

\* all_posts[:k], line 80: a negative k counts from the end
PythonSlice(s, k) ==
    IF k >= 0 THEN SubSeq(s, 1, Min(k, Len(s)))
    ELSE SubSeq(s, 1, Max(Len(s) + k, 0))

\* lines 100-105: `if trimmed_tokens:` is false for None and for 0
TrimReport(tt) ==
    IF tt = None \/ tt = 0 THEN "unverified"
    ELSE IF tt <= 950000 THEN "within" ELSE "still_over"

\* the None guard of lines 38-40 missing: formatting None at line 43 raises
VerdictNoNoneGuard(tc, n) ==
    IF tc = None THEN "crashed"
    ELSE IF WithinLimit(tc) THEN "within"
    ELSE IF n = 0 THEN "crashed"
    ELSE IF AvgTokensPerPost(tc, n) = 0 THEN "crashed"
    ELSE "exceeded"

\* lines 38-53: the branch taken for a count tc of a collection of n posts;
\* lines 52 and 53 raise ZeroDivisionError for n = 0 and for an average of 0
Verdict(tc, n) ==
    IF tc = None THEN "unknown"
    ELSE IF WithinLimit(tc) THEN "within"
    ELSE IF n = 0 THEN "crashed"
    ELSE IF AvgTokensPerPost(tc, n) = 0 THEN "crashed"
    ELSE "exceeded"

\* a second pass when the trimmed file is still over the limit
AfterTrimRetry(report) == IF report = "still_over" THEN "check" ELSE "finish"

\* line 107: trim_posts_and_reexport returns whatever the re-measurement says
AfterTrim(report) == "finish"

\* input(...).strip().lower(), line 64
Inputs == {"y", " YES", "n", "No ", "maybe", ""}

StripLower(raw) ==
    CASE raw = " YES" -> "yes"
      [] raw = "No " -> "no"
      [] OTHER -> raw

\* every answer but a refusal taken as consent
IsYesUnlessNo(c) == c \notin {"n", "no"}

\* line 65
IsYes(c) == c \in {"y", "yes"}

\* line 67
IsNo(c) == c \in {"n", "no"}

----------------------------------------------------------------------------
(* Init: the state at entry of export_posts_to_json *)

Init ==
    /\ pc = "resolve"
    /\ repo_did = NoDid
    /\ output_filename = NoFile
    /\ all_posts = <<>>
    /\ cursor = NoCursor
    /\ posts_fetched = 0
    /\ response = NoResponse
    /\ requests = <<>>
    /\ pages = <<>>
    /\ failed = FALSE
    /\ appended = <<>>
    /\ files = NoFiles
    /\ written = <<>>
    /\ token_count = None
    /\ measurements = 0
    /\ posts_to_remove = 0
    /\ posts_to_keep = 0
    /\ estimates = 0
    /\ prompts = 0
    /\ choice = ""
    /\ trimmed_posts = <<>>
    /\ trim_report = ""
    /\ outcome = ""
    /\ final_filename = NoFile

----------------------------------------------------------------------------
(* export_posts_to_json, lines 119-135 *)

ResolveOk ==
    /\ pc = "resolve"
    /\ repo_did' = Did
    /\ output_filename' = Filename(handle, 1, ".json")
    /\ pc' = "fetch"
    /\ UNCHANGED <<fetchVars, files, written, budgetVars>>

\* the return of line 131 missing: the run goes on without a DID
ResolveFailContinue ==
    /\ pc = "resolve"
    /\ output_filename' = Filename(handle, 1, ".json")
    /\ pc' = "fetch"
    /\ UNCHANGED <<repo_did, fetchVars, files, written, budgetVars>>

\* lines 128-131: the except branch returns None
ResolveFail ==
    /\ pc = "resolve"
    /\ pc' = "done"
    /\ UNCHANGED <<repo_did, output_filename, fetchVars, files, written, budgetVars>>

(* One iteration of the loop of lines 146-194 whose request succeeds *)
FetchPageBreakEarly(resp) ==
    /\ pc = "fetch"
    /\ requests' = Append(requests, cursor)
    /\ response' = resp
    /\ pages' = Append(pages, [count |-> Len(resp.records), cursor |-> resp.cursor])
    /\ IF Terminating(resp)
       THEN /\ pc' = "sort"
            /\ UNCHANGED <<all_posts, appended, posts_fetched, cursor>>
       ELSE /\ all_posts' = all_posts \o PagePosts(resp.records, repo_did)
            /\ appended' = appended \o PagePosts(resp.records, repo_did)
            /\ posts_fetched' = posts_fetched + Len(resp.records)
            /\ cursor' = resp.cursor
            /\ pc' = "fetch"
    /\ UNCHANGED <<repo_did, output_filename, failed, files, written, budgetVars>>

\* line 187 missing: the next request carries the old cursor again
FetchPageStaleCursor(resp) ==
    /\ pc = "fetch"
    /\ requests' = Append(requests, cursor)
    /\ response' = resp
    /\ pages' = Append(pages, [count |-> Len(resp.records), cursor |-> resp.cursor])
    /\ IF resp.records = <<>>
       THEN /\ pc' = "sort"
            /\ UNCHANGED <<all_posts, appended, posts_fetched, cursor>>
       ELSE /\ all_posts' = all_posts \o PagePosts(resp.records, repo_did)
            /\ appended' = appended \o PagePosts(resp.records, repo_did)
            /\ posts_fetched' = posts_fetched + Len(resp.records)
            /\ UNCHANGED cursor
            /\ pc' = IF resp.cursor = NoCursor THEN "sort" ELSE "fetch"
    /\ UNCHANGED <<repo_did, output_filename, failed, files, written, budgetVars>>

\* the export written page by page inside the loop
FetchPageWritesPartial(resp) ==
    /\ pc = "fetch"
    /\ requests' = Append(requests, cursor)
    /\ response' = resp
    /\ pages' = Append(pages, [count |-> Len(resp.records), cursor |-> resp.cursor])
    /\ IF resp.records = <<>>
       THEN /\ pc' = "sort"
            /\ UNCHANGED <<all_posts, appended, posts_fetched, cursor, files, written>>
       ELSE /\ all_posts' = all_posts \o PagePosts(resp.records, repo_did)
            /\ appended' = appended \o PagePosts(resp.records, repo_did)
            /\ posts_fetched' = posts_fetched + Len(resp.records)
            /\ cursor' = resp.cursor
            /\ files' = WriteFile(files, output_filename, JsonDump(all_posts'))
            /\ written' = Append(written, output_filename)
            /\ pc' = IF resp.cursor = NoCursor THEN "sort" ELSE "fetch"
    /\ UNCHANGED <<repo_did, output_filename, failed, budgetVars>>

\* the test of line 188 inverted: a page that carries a cursor ends the loop
FetchPageInvertedBreak(resp) ==
    /\ pc = "fetch"
    /\ requests' = Append(requests, cursor)
    /\ response' = resp
    /\ pages' = Append(pages, [count |-> Len(resp.records), cursor |-> resp.cursor])
    /\ IF resp.records = <<>>
       THEN /\ pc' = "sort"
            /\ UNCHANGED <<all_posts, appended, posts_fetched, cursor>>
       ELSE /\ all_posts' = all_posts \o PagePosts(resp.records, repo_did)
            /\ appended' = appended \o PagePosts(resp.records, repo_did)
            /\ posts_fetched' = posts_fetched + Len(resp.records)
            /\ cursor' = resp.cursor
            /\ pc' = IF resp.cursor # NoCursor THEN "sort" ELSE "fetch"
    /\ UNCHANGED <<repo_did, output_filename, failed, files, written, budgetVars>>

FetchPage(resp) ==
    /\ pc = "fetch"
    /\ requests' = Append(requests, cursor)
    /\ response' = resp
    /\ pages' = Append(pages, [count |-> Len(resp.records), cursor |-> resp.cursor])
    /\ IF resp.records = <<>>
       THEN /\ pc' = "sort"
            /\ UNCHANGED <<all_posts, appended, posts_fetched, cursor>>
       ELSE /\ all_posts' = all_posts \o PagePosts(resp.records, repo_did)
            /\ appended' = appended \o PagePosts(resp.records, repo_did)
            /\ posts_fetched' = posts_fetched + Len(resp.records)
            /\ cursor' = resp.cursor
            /\ pc' = IF resp.cursor = NoCursor THEN "sort" ELSE "fetch"
    /\ UNCHANGED <<repo_did, output_filename, failed, files, written, budgetVars>>

\* the responses the server can give to the next request: at most PageLimit
\* records, no more than the repository still holds, and the last response
\* of the finite page sequence is a terminating one
NextResponses ==
    { resp \in [records : RecordLists(Min(PageLimit, MaxRecords - Len(appended))),
                cursor : Cursors \cup {NoCursor}] :
        Len(requests) = MaxPages - 1 => Terminating(resp) }

FetchStep ==
    /\ Len(requests) < MaxPages
    /\ \E resp \in NextResponses : FetchPage(resp)

FetchFailRetry ==
    /\ pc = "fetch"
    /\ Len(requests) < MaxPages
    /\ requests' = Append(requests, cursor)
    /\ failed' = TRUE
    /\ pc' = "fetch"
    /\ UNCHANGED <<repo_did, output_filename, all_posts, cursor, posts_fetched,
                   response, pages, appended, files, written, budgetVars>>

\* lines 192-194: the request raises, the loop is left
FetchFail ==
    /\ pc = "fetch"
    /\ Len(requests) < MaxPages
    /\ requests' = Append(requests, cursor)
    /\ failed' = TRUE
    /\ pc' = "sort"
    /\ UNCHANGED <<repo_did, output_filename, all_posts, cursor, posts_fetched,
                   response, pages, appended, files, written, budgetVars>>

\* lines 197-198.  response is not read once the loop is left.
Sort ==
    /\ pc = "sort"
    /\ all_posts' = IF all_posts # <<>> THEN SortDesc(all_posts) ELSE all_posts
    /\ response' = NoResponse
    /\ pc' = "write"
    /\ UNCHANGED <<repo_did, output_filename, cursor, posts_fetched, requests,
                   pages, failed, appended, files, written, budgetVars>>

\* lines 201-202
WriteExport ==
    /\ pc = "write"
    /\ files' = WriteFile(files, output_filename, JsonDump(all_posts))
    /\ written' = Append(written, output_filename)
    /\ pc' = "check"
    /\ UNCHANGED <<repo_did, output_filename, fetchVars, budgetVars>>

----------------------------------------------------------------------------
(* check_token_limit_and_offer_trim(output_filename, all_posts, handle)    *)

\* lines 29-59: read, count, compare, estimate
CheckTokenLimit ==
    /\ pc = "check"
    /\ \E tc \in CountChoices(files[output_filename]) :
        LET verdict == Verdict(tc, Len(all_posts))
        IN /\ token_count' = tc
           /\ measurements' = measurements + 1
           /\ outcome' = verdict
           /\ IF verdict \in {"unknown", "within"}
              THEN /\ final_filename' = output_filename
                   /\ pc' = "finish"
                   /\ UNCHANGED <<posts_to_remove, posts_to_keep, estimates>>
              ELSE IF verdict = "crashed"
              THEN /\ pc' = "done"
                   /\ UNCHANGED <<posts_to_remove, posts_to_keep, estimates,
                                  final_filename>>
              ELSE /\ posts_to_remove' = PostsToRemove(tc, Len(all_posts))
                   /\ posts_to_keep' = PostsToKeep(tc, Len(all_posts))
                   /\ estimates' = estimates + 1
                   /\ pc' = "prompt"
                   /\ UNCHANGED final_filename
    /\ UNCHANGED <<repo_did, output_filename, fetchVars, files, written, prompts,
                   choice, trimmed_posts, trim_report>>

\* lines 70-71: any other answer prompts again
PromptInvalid ==
    /\ pc = "prompt"
    /\ prompts < MaxInvalid
    /\ \E raw \in Inputs :
        /\ ~IsYes(StripLower(raw))
        /\ ~IsNo(StripLower(raw))
        /\ choice' = StripLower(raw)
    /\ prompts' = prompts + 1
    /\ UNCHANGED <<pc, repo_did, output_filename, fetchVars, files, written,
                   token_count, measurements, posts_to_remove, posts_to_keep,
                   estimates, trimmed_posts, trim_report, outcome, final_filename>>

\* lines 67-69
PromptNo ==
    /\ pc = "prompt"
    /\ \E raw \in Inputs :
        /\ ~IsYes(StripLower(raw))
        /\ IsNo(StripLower(raw))
        /\ choice' = StripLower(raw)
    /\ prompts' = prompts + 1
    /\ outcome' = "kept"
    /\ final_filename' = output_filename
    /\ pc' = "finish"
    /\ UNCHANGED <<repo_did, output_filename, fetchVars, files, written,
                   token_count, measurements, posts_to_remove, posts_to_keep,
                   estimates, trimmed_posts, trim_report>>

\* lines 65-66 and all of trim_posts_and_reexport, lines 77-107
PromptYes ==
    /\ pc = "prompt"
    /\ \E raw \in Inputs :
        /\ IsYes(StripLower(raw))
        /\ choice' = StripLower(raw)
    /\ prompts' = prompts + 1
    /\ trimmed_posts' = PythonSlice(all_posts, posts_to_keep)
    /\ \E ts \in Clock :
        LET trimmed_filename == Filename(handle, ts, "_trimmed.json")
        IN /\ ts >= output_filename.ts
           /\ files' = WriteFile(files, trimmed_filename, JsonDump(trimmed_posts'))
           /\ written' = Append(written, trimmed_filename)
           /\ final_filename' = trimmed_filename
    /\ \E tt \in CountChoices(JsonDump(trimmed_posts')) :
        \* the same text measured again gives the same count, or None
        /\ (trimmed_posts' = all_posts /\ tt # None) => tt = token_count
        /\ trim_report' = TrimReport(tt)
    /\ measurements' = measurements + 1
    /\ outcome' = "trimmed"
    /\ pc' = AfterTrim(trim_report')
    /\ UNCHANGED <<repo_did, output_filename, fetchVars, token_count,
                   posts_to_remove, posts_to_keep, estimates>>

\* lines 211-216
Finish ==
    /\ pc = "finish"
    /\ pc' = "done"
    /\ UNCHANGED <<repo_did, output_filename, fetchVars, files, written, budgetVars>>

----------------------------------------------------------------------------

Next ==
    \/ ResolveOk
    \/ ResolveFail
    \/ FetchStep
    \/ FetchFail
    \/ Sort
    \/ WriteExport
    \/ CheckTokenLimit
    \/ PromptInvalid
    \/ PromptNo
    \/ PromptYes
    \/ Finish

Spec == Init /\ [][Next]_vars

\* The program is sequential and every call of it returns or raises: a run
\* that can take a step takes one.
FairSpec == Spec /\ WF_vars(Next)

\* export_posts_to_json up to the write of the export (lines 119-202), with
\* the same fairness: the steps the pagination loop and its exits consist of
NextFetch ==
    \/ ResolveOk
    \/ ResolveFail
    \/ FetchStep
    \/ FetchFail
    \/ Sort
    \/ WriteExport

FairSpecFetch == Init /\ [][NextFetch]_vars /\ WF_vars(NextFetch)

----------------------------------------------------------------------------
(* check_token_limit_and_offer_trim on its own: called with the file of a  *)
(* sorted collection of any of these sizes, as line 209 calls it.  The      *)
(* fetch history is no input of the enforcer.                               *)

BudgetPostCounts == (0..MaxBudgetPosts) \cup {10000}

SortedPosts(n) ==
    [i \in 1..n |-> [created_at |-> n + 1 - i, text |-> "text", images |-> <<>>]]

InitBudget ==
    /\ pc = "check"
    /\ repo_did = Did
    /\ output_filename = Filename(handle, 1, ".json")
    /\ all_posts \in {SortedPosts(n) : n \in BudgetPostCounts}
    /\ appended = all_posts
    /\ cursor = NoCursor
    /\ posts_fetched = Len(all_posts)
    /\ response = NoResponse
    /\ requests = <<>>
    /\ pages = <<>>
    /\ failed = FALSE
    /\ files = WriteFile(NoFiles, output_filename, JsonDump(all_posts))
    /\ written = <<output_filename>>
    /\ token_count = None
    /\ measurements = 0
    /\ posts_to_remove = 0
    /\ posts_to_keep = 0
    /\ estimates = 0
    /\ prompts = 0
    /\ choice = ""
    /\ trimmed_posts = <<>>
    /\ trim_report = ""
    /\ outcome = ""
    /\ final_filename = NoFile

NextBudget ==
    \/ CheckTokenLimit
    \/ PromptInvalid
    \/ PromptNo
    \/ PromptYes

SpecBudget == InitBudget /\ [][NextBudget]_vars

----------------------------------------------------------------------------
(* Properties *)

RECURSIVE SumCounts(_)
SumCounts(ps) == IF ps = <<>> THEN 0 ELSE ps[Len(ps)].count + SumCounts(SubSeq(ps, 1, Len(ps) - 1))

Occurrences(s, x) == Cardinality({i \in 1..Len(s) : s[i] = x})

SamePosts(s, t) ==
    /\ Len(s) = Len(t)
    /\ \A i \in 1..Len(s) : Occurrences(s, s[i]) = Occurrences(t, s[i])

IsPrefix(s, t) == Len(s) <= Len(t) /\ \A i \in 1..Len(s) : s[i] = t[i]

LoopLeft == repo_did # NoDid /\ pc \notin {"resolve", "fetch"}

ExportWritten == output_filename \in DOMAIN files

TrimmedNames == {i \in 1..Len(written) : written[i].suffix = "_trimmed.json"}

\* C1: when no request fails, the fetch loop is left once the terminating page
\* of the finite page sequence has been consumed, and the posts accumulated
\* then number the sum of the record counts of all pages consumed, the
\* terminating page included.
C1_PaginationTerminates ==
    /\ []((LoopLeft /\ ~failed) =>
            /\ Len(all_posts) = SumCounts(pages)
            /\ pages # <<>>
            /\ (pages[Len(pages)].count = 0 \/ pages[Len(pages)].cursor = NoCursor))
    /\ ((pc = "fetch") ~> (pc # "fetch"))

C1_Witness ==
    /\ pc = "sort"
    /\ ~failed
    /\ Len(pages) = 2
    /\ pages[1].count = 1
    /\ pages[2].count = 1
    /\ Len(all_posts) = 2

\* C2: once a page request has failed the loop has been left, the failed
\* request is the last one issued (no retry, no further page), the run goes
\* on to sort and write instead of raising, the collection holds exactly the
\* posts of the pages received before the failure, and the export artifact,
\* once written, holds those posts.
C2_FailureTruncatesFetch ==
    failed =>
        /\ pc # "fetch"
        /\ Len(requests) = Len(pages) + 1
        /\ outcome # "crashed"
        /\ pc = "sort" => ENABLED Sort
        /\ pc = "write" => ENABLED WriteExport
        /\ Len(appended) = SumCounts(pages)
        /\ \A i \in 1..Len(pages) : pages[i].count > 0 /\ pages[i].cursor # NoCursor
        /\ SamePosts(all_posts, appended)
        /\ pc \in {"check", "prompt", "finish", "done"} =>
              /\ ExportWritten
              /\ written[1] = output_filename
              /\ SamePosts(files[output_filename].array, appended)

C2_Witness ==
    /\ failed
    /\ pc = "done"
    /\ Len(pages) = 1
    /\ Len(requests) = 2
    /\ ExportWritten
    /\ Len(files[output_filename].array) = 1

\* C3: whenever a trim is performed the trimmed collection has posts_to_keep
\* elements and they are the first posts_to_keep elements of the sorted
\* collection, in the same order.
C3_TrimIsPrefixOfLengthKeep ==
    outcome = "trimmed" =>
        /\ Len(trimmed_posts) = posts_to_keep
        /\ IsPrefix(trimmed_posts, all_posts)
        /\ files[final_filename].array = trimmed_posts

\* C4: a measured count of at most 950,000, 950,000 itself included, ends
\* "within limit" with the original filename, no estimate, no prompt and no
\* trimmed artifact; the exceeded branch is entered only above 950,000.
C4_InclusiveBudget ==
    /\ (measurements >= 1 /\ token_count # None /\ token_count <= 950000) =>
          /\ outcome = "within"
          /\ pc \in {"finish", "done"}
          /\ final_filename = output_filename
          /\ estimates = 0
          /\ prompts = 0
          /\ DOMAIN files = {output_filename}
          /\ TrimmedNames = {}
    /\ outcome \in {"exceeded", "kept", "trimmed"} => token_count > 950000
    /\ pc = "prompt" => token_count > 950000

C4_Witness ==
    /\ pc = "done"
    /\ token_count = 950000
    /\ outcome = "within"
    /\ Len(all_posts) = 2

\* C5: when the first measurement is unavailable the enforcer returns the
\* original filename, computes no trim target, asks nothing, writes no
\* trimmed artifact, and the run does not crash.
C5_UnavailableKeepsOriginal ==
    (measurements = 1 /\ token_count = None) =>
        /\ outcome = "unknown"
        /\ pc \in {"finish", "done"}
        /\ final_filename = output_filename
        /\ estimates = 0
        /\ prompts = 0
        /\ posts_to_remove = 0
        /\ posts_to_keep = 0
        /\ DOMAIN files = {output_filename}
        /\ TrimmedNames = {}

C5_Witness ==
    /\ pc = "done"
    /\ measurements = 1
    /\ token_count = None
    /\ final_filename = output_filename
    /\ Len(all_posts) = 2

\* C6: a run computes at most one trim target and writes at most one trimmed
\* artifact, and once the trimmed artifact has been re-measured the enforcer
\* has returned, whatever the re-measurement said.
C6_AtMostOneTrimPass ==
    /\ estimates <= 1
    /\ Cardinality(TrimmedNames) <= 1
    /\ Cardinality(DOMAIN files) <= 2
    /\ outcome = "trimmed" =>
          /\ pc \in {"finish", "done"}
          /\ estimates = 1
          /\ measurements = 2
          /\ Cardinality(TrimmedNames) = 1
          /\ trim_report \in {"within", "still_over", "unverified"}

C6_Witness ==
    /\ pc = "done"
    /\ outcome = "trimmed"
    /\ trim_report = "still_over"

CeilDiv(a, b) == (a + b - 1) \div b

\* C7: above the limit, posts_to_remove = ceil(excess / avg * 1.1) with
\* excess = token_count - 950,000 and avg = token_count div post count, and
\* posts_to_keep = post count - posts_to_remove; 1,000,000 tokens of 10,000
\* posts give 550 and 9450.
C7_RemoveIsCeiling ==
    estimates = 1 =>
        LET excess == token_count - 950000
            avg == token_count \div Len(all_posts)
        IN /\ posts_to_remove = CeilDiv(11 * excess, 10 * avg)
           /\ posts_to_keep = Len(all_posts) - posts_to_remove
           /\ (token_count = 1000000 /\ Len(all_posts) = 10000) =>
                 (posts_to_remove = 550 /\ posts_to_keep = 9450)

\* C8: whenever a trimmed artifact is produced it holds strictly fewer posts
\* than the full export, of which it is a prefix.
C8_TrimmedIsStrictPrefix ==
    outcome = "trimmed" =>
        /\ IsPrefix(files[final_filename].array, files[output_filename].array)
        /\ Len(files[final_filename].array) < Len(files[output_filename].array)

\* C9: in the collection written to the export artifact every post is at
\* least as new as the post that follows it, whatever the order and the
\* pages in which the posts were fetched; the artifact holds the fetched posts.
C9_ExportNewestFirst ==
    ExportWritten =>
        LET p == files[output_filename].array
        IN /\ \A i \in 1..(Len(p) - 1) : p[i].created_at >= p[i + 1].created_at
           /\ Len(p) = Len(appended)

C9_Witness ==
    /\ ExportWritten
    /\ Len(pages) = 2
    /\ Len(appended) = 2
    /\ appended[1].created_at < appended[2].created_at

\* C10: posts with equal created_at appear in the exported collection in the
\* relative order in which the fetch appended them.
C10_SortIsStable ==
    ExportWritten =>
        \A t \in 1..MaxTime :
            SelectSeq(files[output_filename].array, LAMBDA p : p.created_at = t)
              = SelectSeq(appended, LAMBDA p : p.created_at = t)

C10_Witness ==
    /\ ExportWritten
    /\ Len(appended) = 2
    /\ appended[1].created_at = appended[2].created_at
    /\ appended[1] # appended[2]
    /\ files[output_filename].array = appended

\* C11: when handle resolution fails the run ends there: no page request is
\* issued, no artifact is written, no token measurement is made and no
\* filename is returned.
C11_ResolutionFailureIsFatal ==
    repo_did = NoDid =>
        /\ pc \in {"resolve", "done"}
        /\ requests = <<>>
        /\ pages = <<>>
        /\ all_posts = <<>>
        /\ DOMAIN files = {}
        /\ written = <<>>
        /\ measurements = 0
        /\ prompts = 0
        /\ output_filename = NoFile
        /\ final_filename = NoFile

C11_Witness ==
    /\ pc = "done"
    /\ repo_did = NoDid
    /\ final_filename = NoFile

\* C12: the first page request carries no cursor, request k+1 carries the
\* next cursor of response k, and every cursor a response issued while the
\* loop went on is sent in exactly one request, the one that follows it.
C12_CursorChaining ==
    /\ requests # <<>> => requests[1] = NoCursor
    /\ Len(requests) \in {Len(pages), Len(pages) + 1}
    /\ Len(requests) = Len(pages) + 1 => failed
    /\ \A k \in 2..Len(requests) :
          /\ requests[k] = pages[k - 1].cursor
          /\ requests[k] # NoCursor
    /\ pc = "fetch" =>
          /\ Len(requests) = Len(pages)
          /\ cursor = (IF pages = <<>> THEN NoCursor ELSE pages[Len(pages)].cursor)
    /\ (LoopLeft /\ ~failed) => Len(requests) = Len(pages)

C12_Witness ==
    /\ LoopLeft
    /\ ~failed
    /\ Len(requests) = 2
    /\ requests[1] = NoCursor
    /\ requests[2] = 2
    /\ pages[1].cursor = 2

\* C13: in a run that resolved the handle nothing is written or measured
\* while pages are fetched or before the sort; the export is written once,
\* first of all files, holding the sorted posts of the finished fetch; and
\* every token measurement comes after that write.
C13_FetchSortExportCheck ==
    repo_did # NoDid =>
        /\ pc \in {"fetch", "sort", "write"} =>
              /\ DOMAIN files = {}
              /\ written = <<>>
              /\ measurements = 0
        /\ pc = "write" =>
              \A i \in 1..(Len(all_posts) - 1) :
                  all_posts[i].created_at >= all_posts[i + 1].created_at
        /\ pc \in {"check", "prompt", "finish", "done"} =>
              /\ written # <<>>
              /\ written[1] = output_filename
              /\ Cardinality({i \in 1..Len(written) : written[i] = output_filename}) = 1
              /\ files[output_filename] = JsonDump(all_posts)
              /\ Len(all_posts) = SumCounts(pages)
        /\ pc = "check" => measurements = 0
        /\ measurements >= 1 => ExportWritten

C13_Witness ==
    /\ pc = "done"
    /\ repo_did # NoDid
    /\ Len(pages) = 2
    /\ measurements = 2
    /\ written[1] = output_filename
    /\ Len(written) = 2

\* C14: the number of posts a trim keeps is max(0, post count - posts_to_remove):
\* when posts_to_remove exceeds the post count the trimmed artifact is empty.
C14_KeepFlooredAtZero ==
    outcome = "trimmed" =>
        /\ Len(files[final_filename].array) = Max(0, Len(all_posts) - posts_to_remove)
        /\ posts_to_remove > Len(all_posts) => files[final_filename].array = <<>>

\* C15: above the limit the first answer among y/yes/n/no decides: while
\* other answers come in, nothing but the prompt count changes; on y/yes a
\* trimmed artifact is written and its filename returned; on n/no none is
\* written and the original filename is returned.  So a trimmed artifact
\* exists exactly when the measurement exceeded the limit and the trim was
\* accepted.
C15_FirstValidAnswerDecides ==
    /\ pc = "prompt" =>
          /\ choice \notin {"y", "yes", "n", "no"}
          /\ DOMAIN files = {output_filename}
          /\ written = <<output_filename>>
          /\ final_filename = NoFile
          /\ trimmed_posts = <<>>
          /\ measurements = 1
          /\ estimates = 1
          /\ outcome = "exceeded"
          /\ posts_to_keep = Len(all_posts) - posts_to_remove
    /\ (estimates = 1 /\ pc \in {"finish", "done"}) =>
          /\ choice \in {"y", "yes", "n", "no"}
          /\ choice \in {"y", "yes"} =>
                /\ Len(written) = 2
                /\ final_filename = written[2]
                /\ final_filename.suffix = "_trimmed.json"
                /\ final_filename \in DOMAIN files
                /\ files[final_filename] = JsonDump(trimmed_posts)
          /\ choice \in {"n", "no"} =>
                /\ final_filename = output_filename
                /\ written = <<output_filename>>
                /\ DOMAIN files = {output_filename}
    /\ (TrimmedNames # {} \/ \E f \in DOMAIN files : f.suffix = "_trimmed.json")
          <=> (measurements >= 1 /\ token_count > 950000 /\ choice \in {"y", "yes"})

C15_Witness ==
    /\ pc = "done"
    /\ prompts = 2
    /\ choice = "yes"
    /\ final_filename.suffix = "_trimmed.json"
    /\ final_filename \in DOMAIN files

\* C16 as stated: on the success path the loop ends only on a response that
\* lacks a next cursor; a response that carries one never ends the loop.
C16_OnlyMissingCursorEndsLoop ==
    (LoopLeft /\ ~failed) => pages[Len(pages)].cursor = NoCursor

\* C16 amended: on the success path the loop ends only on a response that
\* lacks a next cursor or holds no records; a response that carries a next
\* cursor and at least one record never ends the loop.
C16_CursorOrEmptyPageEndsLoop ==
    /\ (LoopLeft /\ ~failed) =>
          /\ pages # <<>>
          /\ (pages[Len(pages)].cursor = NoCursor \/ pages[Len(pages)].count = 0)
    /\ (pc = "fetch" /\ pages # <<>>) =>
          (pages[Len(pages)].cursor # NoCursor /\ pages[Len(pages)].count > 0)
    /\ \A k \in 1..(Len(pages) - 1) :
          (pages[k].cursor # NoCursor /\ pages[k].count > 0)

C16_Witness ==
    /\ LoopLeft
    /\ ~failed
    /\ Len(pages) = 2
    /\ pages[1].cursor # NoCursor
    /\ pages[2].count = 0
    /\ pages[2].cursor # NoCursor

\* C17: a trim writes its posts to a new artifact whose name differs from
\* the export's, leaves the export's content as it was written, and leaves
\* the sorted collection in memory holding all fetched posts.
C17_TrimLeavesExportUntouched ==
    outcome = "trimmed" =>
        /\ final_filename # output_filename
        /\ final_filename \in DOMAIN files
        /\ ExportWritten
        /\ Cardinality(DOMAIN files) = 2
        /\ files[final_filename].array = trimmed_posts
        /\ files[output_filename].array = all_posts
        /\ Len(files[output_filename].array) = posts_fetched
        /\ SamePosts(all_posts, appended)
        /\ \A i \in 1..(Len(all_posts) - 1) :
              all_posts[i].created_at >= all_posts[i + 1].created_at

C17_Witness ==
    /\ pc = "done"
    /\ outcome = "trimmed"
    /\ final_filename.ts = output_filename.ts
    /\ Len(all_posts) = 2
    /\ Len(trimmed_posts) = 1
    /\ Len(files[output_filename].array) = 2

\* C18: every record of the page just processed whose embed is absent, empty
\* or of another type than the image embed has been appended as a post with
\* an empty image list; such a page raises nothing and ends the loop only by
\* lacking a next cursor.
C18_NonImageEmbedGivesNoImages ==
    (pc \in {"fetch", "sort"} /\ pages # <<>> /\ response.records # <<>>) =>
        LET n == Len(response.records)
            base == Len(appended) - n
        IN /\ base >= 0
           /\ n = pages[Len(pages)].count
           /\ \A i \in 1..n :
                 LET e == response.records[i].embed
                 IN (~e.has \/ ~e.truthy \/ e.py_type # "app.bsky.embed.images") =>
                       /\ appended[base + i].images = <<>>
                       /\ appended[base + i].created_at = response.records[i].created_at
                       /\ appended[base + i].text = response.records[i].text
           /\ ~failed => (pc = "sort" <=> response.cursor = NoCursor)
           /\ failed => Len(requests) = Len(pages) + 1

C18_Witness ==
    /\ pc = "fetch"
    /\ ~failed
    /\ Len(response.records) = 2
    /\ ~response.records[1].embed.has
    /\ response.records[2].embed.py_type = "com.example.embed.gallery"
    /\ Len(appended) = 2
    /\ appended[2].images = <<>>

\* C19: whenever the estimate of lines 51-54 is reached the measured count
\* is above 950,000, the collection is not empty and the average per post
\* is at least 1, so neither division is by zero, posts_to_remove is not
\* negative and posts_to_keep is at most the post count.
C19_EstimateIsDefined ==
    /\ outcome # "crashed"
    /\ (measurements >= 1 /\ token_count > 950000) =>
          /\ all_posts # <<>>
          /\ estimates = 1
    /\ estimates >= 1 =>
          /\ token_count > 950000
          /\ Len(all_posts) >= 1
          /\ token_count \div Len(all_posts) >= 1
          /\ posts_to_remove >= 0
          /\ posts_to_keep <= Len(all_posts)
          /\ posts_to_remove * 10 * (token_count \div Len(all_posts))
                <= 11 * (token_count - 950000)

C19_Witness ==
    /\ estimates = 1
    /\ Len(all_posts) = 10000
    /\ token_count = 950001
    /\ posts_to_remove = 0

====
